---- MODULE Spec2Model ----
(***************************************************************************)
(* Model of the image conversion function                                  *)
(* (netlify/functions/convert-image.js): exports.handler and the           *)
(* hand-written multipart parser parseMultipartFormData; and of the        *)
(* browser script of the converter page (main.js).                         *)
(*                                                                         *)
(* Bytes are integers 0..255, a Buffer is a sequence of bytes, a           *)
(* JavaScript string is a sequence of code points.  Offsets are 0-based    *)
(* as in the source; TLA+ sequences are 1-based, so byte i of a buffer is  *)
(* buf[i + 1].                                                             *)
(***************************************************************************)
EXTENDS Integers, Sequences, FiniteSets, TLC

VARIABLES
    event,          \* the request: httpMethod, headers, body
    src,            \* how event.body was built: the parts it was encoded from
    pc,             \* position of the handler
    buffer,         \* parseMultipartFormData: the decoded body
    boundary,       \* parseMultipartFormData: the boundary text
    position,       \* parseMultipartFormData: the scan cursor
    parts,          \* parseMultipartFormData: the mapping being filled
    imageBuffer,    \* handler: whether an image was resolved
    maxWidth,       \* handler local
    maxHeight,      \* handler local
    format,         \* handler local
    metadata,       \* handler: natural dimensions read from the image library
    resizeOptions,  \* handler local
    sharpCalls,     \* the operations asked of the image library, in order
    remote,         \* how the server of imageUrl answers the fetch
    response,       \* the returned response
    fileInput,      \* page: the file held by the file input (fileInput.files[0])
    lastFile,       \* page: the script's lastFile
    statusEl,       \* page: statusEl.textContent
    convertBtn,     \* page: convertBtn.disabled
    downloadLink,   \* page: display, href and download of the download link
    originalPreview,    \* page: originalPreview.src
    convertedPreview,   \* page: convertedPreview.src
    originalInfo,   \* page: originalInfo.textContent
    convertedInfo,  \* page: convertedInfo.textContent
    conversions,    \* page: the fileToWebP promises that have not settled
    loads           \* page: the preview images of the change listener still loading

vars == <<event, src, pc, buffer, boundary, position, parts, imageBuffer,
          maxWidth, maxHeight, format, metadata, resizeOptions, sharpCalls,
          remote, response>>

pageVars == <<fileInput, lastFile, statusEl, convertBtn, downloadLink,
              originalPreview, convertedPreview, originalInfo, convertedInfo,
              conversions, loads>>

parserVars == <<buffer, boundary, position, parts>>
handlerVars == <<imageBuffer, maxWidth, maxHeight, format, metadata,
                 resizeOptions, sharpCalls, response>>

---------------------------------------------------------------------------
(* Bounds of the model *)

\* most parts a generated multipart body is built from
MaxParts == 2
\* most fragments a raw (unstructured) body is concatenated from
MaxChunks == 4
\* largest natural width and height the image library reports
MaxDim == 3

---------------------------------------------------------------------------
(* Bytes and texts of the source *)

CR == 13
LF == 10
Dash == 45
Quote == 34

CRLF == <<CR, LF>>
\* Buffer.from('\r\n\r\n')
HeaderTerminator == <<CR, LF, CR, LF>>
\* the text  name="  that the regular expression /name="([^"]+)"/ starts with
NameAttr == <<110, 97, 109, 101, 61, Quote>>
\* 'filename='
FilenameAttr == <<102, 105, 108, 101, 110, 97, 109, 101, 61>>
\* 'image', 'maxWidth', 'maxHeight', 'format': the keys the handler reads
ImageKey == <<105, 109, 97, 103, 101>>
MaxWidthKey == <<109, 97, 120, 87, 105, 100, 116, 104>>
MaxHeightKey == <<109, 97, 120, 72, 101, 105, 103, 104, 116>>
FormatKey == <<102, 111, 114, 109, 97, 116>>
\* 'avif', 'webp'
Avif == <<97, 118, 105, 102>>
Webp == <<119, 101, 98, 112>>
\* 'avif.', 'webp.', '://avif.', '://webp.'
AvifDot == <<97, 118, 105, 102, 46>>
WebpDot == <<119, 101, 98, 112, 46>>
SchemeAvifDot == <<58, 47, 47, 97, 118, 105, 102, 46>>
SchemeWebpDot == <<58, 47, 47, 119, 101, 98, 112, 46>>
\* 'application/json', 'multipart/form-data', 'boundary='
ApplicationJson == <<97, 112, 112, 108, 105, 99, 97, 116, 105, 111, 110, 47,
                     106, 115, 111, 110>>
MultipartFormData == <<109, 117, 108, 116, 105, 112, 97, 114, 116, 47, 102,
                       111, 114, 109, 45, 100, 97, 116, 97>>
BoundaryEq == <<98, 111, 117, 110, 100, 97, 114, 121, 61>>

---------------------------------------------------------------------------
(* Buffer and String primitives, with JavaScript's semantics *)

\* buffer[i]: the byte at 0-based offset i, undefined (-1) outside the buffer
At(buf, i) == IF i >= 0 /\ i < Len(buf) THEN buf[i + 1] ELSE -1

\* whether pat occurs in buf at 0-based offset i
MatchesAt(buf, pat, i) ==
    /\ i >= 0
    /\ i + Len(pat) <= Len(buf)
    /\ \A k \in 1..Len(pat) : buf[i + k] = pat[k]

\* buf.indexOf(pat, from): the first offset >= from where pat occurs, else -1
IndexOf(buf, pat, from) ==
    LET hits == {i \in from..(Len(buf) - Len(pat)) : MatchesAt(buf, pat, i)}
    IN  IF hits = {} THEN -1
        ELSE CHOOSE i \in hits : \A j \in hits : i <= j

\* str.includes(pat)
Includes(str, pat) == IndexOf(str, pat, 0) # -1

\* str.startsWith(pat)
StartsWith(str, pat) == MatchesAt(str, pat, 0)

\* buf.slice(start, end): the bytes at offsets start..end-1, empty when
\* end <= start; both offsets are clamped to the buffer
Slice(buf, start, end) ==
    LET e == IF end > Len(buf) THEN Len(buf) ELSE end
        s == IF start < 0 THEN 0 ELSE start
    IN  IF e <= s THEN << >> ELSE SubSeq(buf, s + 1, e)

\* one character of str.toLowerCase(), for the ASCII range
LowerChar(c) == IF c >= 65 /\ c <= 90 THEN c + 32 ELSE c

\* str.toLowerCase()
ToLowerCase(str) == [i \in 1..Len(str) |-> LowerChar(str[i])]

\* a continuation byte 10xxxxxx
IsCont(b) == b >= 128 /\ b <= 191

\* the second byte a UTF-8 lead byte b1 of a 3- or 4-byte sequence accepts
SecondOk(b1, b2) ==
    CASE b1 = 224 -> b2 >= 160 /\ b2 <= 191
      [] b1 = 237 -> b2 >= 128 /\ b2 <= 159
      [] b1 = 240 -> b2 >= 144 /\ b2 <= 191
      [] b1 = 244 -> b2 >= 128 /\ b2 <= 143
      [] OTHER -> IsCont(b2)

\* the number of bytes the UTF-8 sequence led by b1 has; 1 for a byte that
\* leads nothing (ASCII, a continuation byte, 0xC0, 0xC1, 0xF5 and above)
SequenceLength(b1) ==
    IF b1 >= 194 /\ b1 <= 223 THEN 2
    ELSE IF b1 >= 224 /\ b1 <= 239 THEN 3
    ELSE IF b1 >= 240 /\ b1 <= 244 THEN 4
    ELSE 1

\* whether the byte at offset j continues the sequence led at offset i < j
ContinuesAt(buf, i, j) ==
    IF j = i + 1 THEN
        IF SequenceLength(At(buf, i)) = 2 THEN IsCont(At(buf, j))
        ELSE SecondOk(At(buf, i), At(buf, j))
    ELSE IsCont(At(buf, j))

\* the bytes the decoder takes together from offset i: the longest prefix of
\* the sequence led there that is well formed (at least the byte itself)
Taken(buf, i) ==
    LET len == SequenceLength(At(buf, i))
        ok == {n \in 1..len : \A j \in (i + 1)..(i + n - 1) :
                                  ContinuesAt(buf, i, j)}
    IN  CHOOSE n \in ok : \A m \in ok : m <= n

\* whether the decoder starts an element at offset i: the byte is not taken
\* together with a lead byte up to three places before it
StartsElement(buf, i) ==
    \A j \in (i - 3)..(i - 1) : j < 0 \/ j + Taken(buf, j) <= i

\* the code point decoded at offset i: U+FFFD (65533) for an ill-formed or
\* unfinished sequence
CodePointAt(buf, i) ==
    LET b1 == At(buf, i)
        b2 == At(buf, i + 1)
        b3 == At(buf, i + 2)
        b4 == At(buf, i + 3)
        len == SequenceLength(b1)
    IN  IF b1 < 128 THEN b1
        ELSE IF len = 1 \/ Taken(buf, i) < len THEN 65533
        ELSE IF len = 2 THEN (b1 - 192) * 64 + (b2 - 128)
        ELSE IF len = 3
          THEN (b1 - 224) * 4096 + (b2 - 128) * 64 + (b3 - 128)
        ELSE (b1 - 240) * 262144 + (b2 - 128) * 4096 + (b3 - 128) * 64
               + (b4 - 128)

\* buf.toString('utf-8')
Utf8Decode(buf) ==
    LET starts == SelectSeq([i \in 1..Len(buf) |-> i - 1],
                            LAMBDA i : StartsElement(buf, i))
    IN  [k \in 1..Len(starts) |-> CodePointAt(buf, starts[k])]

\* the value of one base64 character, -1 for a character outside the alphabet
\* (both the standard and the URL-safe alphabet are accepted)
B64Value(c) ==
    IF c >= 65 /\ c <= 90 THEN c - 65
    ELSE IF c >= 97 /\ c <= 122 THEN c - 71
    ELSE IF c >= 48 /\ c <= 57 THEN c + 4
    ELSE IF c = 43 \/ c = 45 THEN 62
    ELSE IF c = 47 \/ c = 95 THEN 63
    ELSE -1

\* the 6-bit values of a base64 text up to its first '=' (61), characters
\* outside the alphabet skipped
B64Sextets(str) ==
    LET pads == {i \in 1..Len(str) : str[i] = 61}
        stop == IF pads = {} THEN Len(str) + 1
                ELSE CHOOSE i \in pads : \A j \in pads : i <= j
        valid == SelectSeq(SubSeq(str, 1, stop - 1),
                           LAMBDA c : B64Value(c) # -1)
    IN  [i \in 1..Len(valid) |-> B64Value(valid[i])]

\* the bytes of a sequence of 6-bit values: 4 values give 3 bytes, a last
\* group of 3 gives 2 bytes, of 2 gives 1 byte, of 1 gives none
B64Bytes(v) ==
    [k \in 1..((Len(v) * 6) \div 8) |->
        LET g == 4 * ((k - 1) \div 3)
            r == (k - 1) % 3
        IN  IF r = 0 THEN v[g + 1] * 4 + v[g + 2] \div 16
            ELSE IF r = 1 THEN (v[g + 2] % 16) * 16 + v[g + 3] \div 4
            ELSE (v[g + 3] % 4) * 64 + v[g + 4]]

\* Buffer.from(str, 'base64')
Base64Decode(str) == B64Bytes(B64Sextets(str))

\* Buffer.from(str, 'binary'): each character gives its code modulo 256
BinaryDecode(str) == [i \in 1..Len(str) |-> str[i] % 256]

---------------------------------------------------------------------------
(* parseMultipartFormData *)

\* Buffer.from(`--${boundary}`)
BoundaryBuffer(bnd) == <<Dash, Dash>> \o bnd

\* Buffer.from(`--${boundary}--`)
BoundaryEnd(bnd) == <<Dash, Dash>> \o bnd \o <<Dash, Dash>>

\* the decoding of the body at the head of parseMultipartFormData
DecodeBody(body, isBase64Encoded) ==
    IF isBase64Encoded THEN Base64Decode(body) ELSE BinaryDecode(body)

\* "Skip CRLF after boundary"
SkipCRLF(buf, pos) ==
    IF At(buf, pos) = CR /\ At(buf, pos + 1) = LF THEN pos + 2 ELSE pos

\* headers.match(/name="([^"]+)"/): the leftmost offset where  name="  is
\* followed by one or more characters other than a quote and then a quote;
\* found is FALSE when there is none, else name is the captured group
NameMatch(headers) ==
    LET hits == {i \in 0..(Len(headers) - 1) :
                    /\ MatchesAt(headers, NameAttr, i)
                    /\ At(headers, i + 6) # -1
                    /\ At(headers, i + 6) # Quote
                    /\ IndexOf(headers, <<Quote>>, i + 6) # -1}
        first == CHOOSE i \in hits : \A j \in hits : i <= j
    IN  IF hits = {} THEN [found |-> FALSE, name |-> << >>]
        ELSE [found |-> TRUE,
              name |-> Slice(headers, first + 6,
                             IndexOf(headers, <<Quote>>, first + 6))]

\* headers.includes('filename=')
IsFile(headers) == Includes(headers, FilenameAttr)

\* the end of a part's content: "excluding trailing CRLF before boundary"
ContentEnd(nextBoundary) == nextBoundary - 2

\* the value stored for a part: the raw bytes of a file, the text of a field
PartValue(isFile, content) ==
    IF isFile THEN [file |-> TRUE, data |-> content]
    ELSE [file |-> FALSE, data |-> Utf8Decode(content)]

\* parts[fieldName] = value
Store(prts, fieldName, value) ==
    [k \in DOMAIN prts \cup {fieldName} |->
        IF k = fieldName THEN value ELSE prts[k]]

\* const parts = {}
EmptyParts == [k \in {} |-> 0]

\* a slip of lines 278 to 281: the part is skipped but the cursor is left
\* where the iteration found it
NamelessSkipKeepsCursor(entry, afterHeaders, prts) ==
    [brk |-> FALSE, position |-> entry, parts |-> prts]

\* lines 278 to 281: a part without a name is skipped; entry is the cursor
\* at the head of the iteration, afterHeaders is headersEnd + 4
NamelessSkip(entry, afterHeaders, prts) ==
    [brk |-> FALSE, position |-> afterHeaders, parts |-> prts]

\* a slip of line 292: the rest of the buffer is stored as the content
NoNextBoundaryStoresRest(buf, pos, prts, fieldName, isFile) ==
    [brk |-> TRUE, position |-> pos,
     parts |-> Store(prts, fieldName,
                     PartValue(isFile, Slice(buf, pos, Len(buf))))]

\* line 292: no boundary follows the content of a part, the loop is left;
\* pos is the cursor, already past the headers
NoNextBoundary(buf, pos, prts, fieldName, isFile) ==
    [brk |-> TRUE, position |-> pos, parts |-> prts]

\* One iteration of the while loop, entered with position < buffer.length.
\* brk says the iteration left the loop by a break.
LoopStep(buf, bnd, pos, prts) ==
    LET boundaryIndex == IndexOf(buf, BoundaryBuffer(bnd), pos)
        afterBoundary == SkipCRLF(buf, boundaryIndex + Len(BoundaryBuffer(bnd)))
        isEnd == IndexOf(buf, BoundaryEnd(bnd), boundaryIndex) = boundaryIndex
        headersEnd == IndexOf(buf, HeaderTerminator, afterBoundary)
        headers == Utf8Decode(Slice(buf, afterBoundary, headersEnd))
        nameMatch == NameMatch(headers)
        afterHeaders == headersEnd + 4
        nextBoundary == IndexOf(buf, BoundaryBuffer(bnd), afterHeaders)
        content == Slice(buf, afterHeaders, ContentEnd(nextBoundary))
    IN  IF boundaryIndex = -1
          THEN [brk |-> TRUE, position |-> pos, parts |-> prts]
        ELSE IF isEnd
          THEN [brk |-> TRUE, position |-> afterBoundary, parts |-> prts]
        ELSE IF headersEnd = -1
          THEN [brk |-> TRUE, position |-> afterBoundary, parts |-> prts]
        ELSE IF ~nameMatch.found
          THEN NamelessSkip(pos, afterHeaders, prts)
        ELSE IF nextBoundary = -1
          THEN NoNextBoundary(buf, afterHeaders, prts, nameMatch.name,
                              IsFile(headers))
        ELSE [brk |-> FALSE, position |-> nextBoundary,
              parts |-> Store(prts, nameMatch.name,
                              PartValue(IsFile(headers), content))]

\* the state of the loop after at most n iterations from (pos, prts)
RECURSIVE LoopFrom(_, _, _, _, _)
LoopFrom(buf, bnd, pos, prts, n) ==
    IF n = 0 \/ pos >= Len(buf)
      THEN [brk |-> FALSE, position |-> pos, parts |-> prts]
    ELSE LET s == LoopStep(buf, bnd, pos, prts)
         IN  IF s.brk THEN s
             ELSE LoopFrom(buf, bnd, s.position, s.parts, n - 1)

\* parseMultipartFormData on an already decoded buffer: the mapping returned.
\* Every iteration that continues moves the cursor forward, so Len(buf) + 1
\* iterations are never used up.
ParseBuffer(buf, bnd) == LoopFrom(buf, bnd, 0, EmptyParts, Len(buf) + 1).parts

---------------------------------------------------------------------------
(* JavaScript values the handler handles *)

\* a field missing from a JSON object, a JSON number, a JSON string
Undefined == [t |-> "undefined"]
Num(n) == [t |-> "number", n |-> n]
Str(s) == [t |-> "string", s |-> s]
\* the values of the locals maxWidth and maxHeight
Null == [t |-> "null"]
NaN == [t |-> "nan"]

\* the truth value JavaScript gives a value in a condition
Truthy(x) ==
    CASE x.t = "number" -> x.n # 0
      [] x.t = "string" -> x.s # << >>
      [] x.t = "buffer" -> TRUE
      [] OTHER -> FALSE

\* the decimal digits of a natural number
RECURSIVE Digits(_)
Digits(n) == IF n < 10 THEN <<48 + n>> ELSE Digits(n \div 10) \o <<48 + (n % 10)>>

\* String(n) for an integer n
NumberToString(n) == IF n < 0 THEN <<Dash>> \o Digits(-n) ELSE Digits(n)

\* white space that parseInt skips at the head of its argument
IsWhiteSpace(c) == c \in {9, 10, 11, 12, 13, 32, 160}

IsDigit(c) == c >= 48 /\ c <= 57

\* the value of the digits of str from 1-based index i on, after acc
RECURSIVE DigitsValue(_, _, _)
DigitsValue(str, i, acc) ==
    IF i > Len(str) \/ ~IsDigit(str[i]) THEN acc
    ELSE DigitsValue(str, i + 1, acc * 10 + (str[i] - 48))

\* parseInt(str, 10) of a string: leading white space, an optional sign, then
\* the longest run of digits; NaN when there is no digit there
ParseIntString(str) ==
    LET rest == {i \in 1..Len(str) : ~IsWhiteSpace(str[i])}
        start == IF rest = {} THEN Len(str) + 1
                 ELSE CHOOSE i \in rest : \A j \in rest : i <= j
        signed == start <= Len(str) /\ str[start] \in {43, Dash}
        first == IF signed THEN start + 1 ELSE start
        magnitude == DigitsValue(str, first, 0)
    IN  IF first > Len(str) \/ ~IsDigit(str[first]) THEN NaN
        ELSE IF signed /\ str[start] = Dash THEN Num(-magnitude)
        ELSE Num(magnitude)

\* String(x): the text of a value (a Buffer decodes as UTF-8)
StringOf(x) ==
    CASE x.t = "number" -> NumberToString(x.n)
      [] x.t = "string" -> x.s
      [] x.t = "buffer" -> Utf8Decode(x.b)

\* parseInt(x, 10)
ParseInt(x) == ParseIntString(StringOf(x))

\* x ? parseInt(x, 10) : null   (lines 80, 81, 112, 113)
OptionalInt(x) == IF Truthy(x) THEN ParseInt(x) ELSE Null

\* a value of the mapping parseMultipartFormData returns, as a JavaScript
\* value; undefined when the key is missing
PartOf(prts, key) ==
    IF key \notin DOMAIN prts THEN Undefined
    ELSE IF prts[key].file THEN [t |-> "buffer", b |-> prts[key].data]
    ELSE Str(prts[key].data)

---------------------------------------------------------------------------
(* exports.handler *)

\* event.headers['content-type'] || event.headers['Content-Type'] || ''
ContentType(ev) == ev.contentType

\* (event.headers['x-forwarded-host'] || event.headers['host'] || '')
\*   .toLowerCase(); a missing header is the empty text
Host(ev) ==
    ToLowerCase(IF ev.xForwardedHost # << >> THEN ev.xForwardedHost ELSE ev.host)

\* a slip of line 42: the format of line 36 is kept for other hosts
HostFormatKeepsWebp(host) ==
    IF StartsWith(host, AvifDot) \/ Includes(host, SchemeAvifDot) THEN Avif
    ELSE Webp

\* the format chosen from the host (lines 36 to 42)
HostFormat(host) ==
    IF StartsWith(host, AvifDot) \/ Includes(host, SchemeAvifDot) THEN Avif
    ELSE IF StartsWith(host, WebpDot) \/ Includes(host, SchemeWebpDot) THEN Webp
    ELSE Avif

\* the format after an explicit format text f (lines 83-84, 115-116)
ExplicitFormat(f, default) ==
    LET lower == ToLowerCase(f)
    IN  IF lower = Avif \/ lower = Webp THEN lower ELSE default

\* contentType.split('boundary=')[1]: the text between the first and the
\* second 'boundary=', undefined (empty here, and as falsy) without a first
BoundaryOf(contentType) ==
    LET first == IndexOf(contentType, BoundaryEq, 0)
        from == first + Len(BoundaryEq)
        second == IndexOf(contentType, BoundaryEq, from)
    IN  IF first = -1 THEN << >>
        ELSE IF second = -1 THEN Slice(contentType, from, Len(contentType))
        ELSE Slice(contentType, from, second)

\* the responses of the handler
Reply(status, error) == [statusCode |-> status, error |-> error]
NoResponse == Reply(0, "")

\* whether the validation of lines 131 and 139 rejects a bound
Rejects(bound) ==
    Truthy(bound) /\ (bound.t = "nan" \/ bound.n <= 0)

\* an empty resizeOptions: a dimension left out is 0, fit is "" unless set
NoResize == [width |-> 0, height |-> 0, fit |-> ""]

\* a slip of line 171: both dimensions must exceed their bounds
PlanResizeBothExceed(w, h, mw, mh) ==
    IF ~(Truthy(mw) \/ Truthy(mh)) THEN NoResize
    ELSE IF Truthy(mw) /\ ~Truthy(mh)
      THEN IF w > mw.n THEN [NoResize EXCEPT !.width = mw.n] ELSE NoResize
    ELSE IF Truthy(mh) /\ ~Truthy(mw)
      THEN IF h > mh.n THEN [NoResize EXCEPT !.height = mh.n] ELSE NoResize
    ELSE IF w > mw.n /\ h > mh.n
      THEN [width |-> mw.n, height |-> mh.n, fit |-> "inside"]
    ELSE NoResize

\* resizeOptions for natural dimensions (w, h)  (lines 154 to 177)
PlanResize(w, h, mw, mh) ==
    IF ~(Truthy(mw) \/ Truthy(mh)) THEN NoResize
    ELSE IF Truthy(mw) /\ ~Truthy(mh)
      THEN IF w > mw.n THEN [NoResize EXCEPT !.width = mw.n] ELSE NoResize
    ELSE IF Truthy(mh) /\ ~Truthy(mw)
      THEN IF h > mh.n THEN [NoResize EXCEPT !.height = mh.n] ELSE NoResize
    ELSE IF w > mw.n \/ h > mh.n
      THEN [width |-> mw.n, height |-> mh.n, fit |-> "inside"]
    ELSE NoResize

\* the handler returns a response
Return(status, error) ==
    /\ response' = Reply(status, error)
    /\ pc' = "done"

\* the catch block of line 219
ProcessingError == Return(500, "Failed to process image")

\* lines 12 to 18
Preflight ==
    /\ pc = "start"
    /\ event.httpMethod = "OPTIONS"
    /\ Return(200, "")
    /\ UNCHANGED <<event, src, remote, parserVars, imageBuffer, maxWidth,
                   maxHeight, format, metadata, resizeOptions, sharpCalls>>
    /\ UNCHANGED pageVars

\* lines 21 to 27
MethodNotAllowed ==
    /\ pc = "start"
    /\ event.httpMethod \notin {"OPTIONS", "POST"}
    /\ Return(405, "Method not allowed. Use POST.")
    /\ UNCHANGED <<event, src, remote, parserVars, imageBuffer, maxWidth,
                   maxHeight, format, metadata, resizeOptions, sharpCalls>>
    /\ UNCHANGED pageVars

\* whether the JSON branch of line 45 is taken
IsJson(ev) == Includes(ContentType(ev), ApplicationJson)

\* whether the multipart branch of line 87 is taken
IsMultipart(ev) == ~IsJson(ev) /\ Includes(ContentType(ev), MultipartFormData)

\* the image source the JSON branch uses: the first truthy field among
\* imageUrl, imageBase64, image  (lines 49, 61, 65)
JsonSource(body) ==
    IF Truthy(body.imageUrl) THEN "imageUrl"
    ELSE IF Truthy(body.imageBase64) THEN "imageBase64"
    ELSE IF Truthy(body.image) THEN "image"
    ELSE "none"

\* lines 45 to 85: the JSON branch, the fetch of imageUrl included
ResolveJson ==
    /\ pc = "start"
    /\ event.httpMethod = "POST"
    /\ IsJson(event)
    /\ LET body == event.json
           source == JsonSource(body)
           throws ==
              \* JSON.parse rejects the text, or the body is null, or the
              \* fetch rejects, or .replace is called on a number
              \/ body.kind # "object"
              \/ source = "imageUrl" /\ remote = "rejected"
              \/ source = "imageBase64" /\ body.imageBase64.t # "string"
              \/ source = "image" /\ body.image.t # "string"
       IN  IF throws THEN
              /\ ProcessingError
              /\ UNCHANGED <<imageBuffer, maxWidth, maxHeight, format>>
           ELSE IF source = "imageUrl" /\ remote # "ok" THEN
              /\ Return(400, "Failed to fetch image from URL")
              /\ UNCHANGED <<imageBuffer, maxWidth, maxHeight, format>>
           ELSE IF source = "none" THEN
              /\ Return(400, "No image provided")
              /\ UNCHANGED <<imageBuffer, maxWidth, maxHeight, format>>
           ELSE
              /\ imageBuffer' = source
              /\ maxWidth' = OptionalInt(body.maxWidth)
              /\ maxHeight' = OptionalInt(body.maxHeight)
              /\ format' = IF body.format.t = "string"
                           THEN ExplicitFormat(body.format.s,
                                               HostFormat(Host(event)))
                           ELSE HostFormat(Host(event))
              /\ pc' = "validate"
              /\ UNCHANGED response
    /\ UNCHANGED <<event, src, remote, parserVars, metadata, resizeOptions,
                   sharpCalls>>
    /\ UNCHANGED pageVars

\* lines 87 to 98: the multipart branch up to the first test of the loop of
\* parseMultipartFormData
BeginMultipart ==
    /\ pc = "start"
    /\ event.httpMethod = "POST"
    /\ IsMultipart(event)
    /\ IF BoundaryOf(ContentType(event)) = << >> THEN
          /\ Return(400, "Invalid multipart/form-data boundary")
          /\ UNCHANGED parserVars
       ELSE
          /\ boundary' = BoundaryOf(ContentType(event))
          /\ buffer' = DecodeBody(event.body, event.isBase64Encoded)
          /\ parts' = EmptyParts
          /\ position' = 0
          /\ pc' = "loop"
          /\ UNCHANGED response
    /\ UNCHANGED <<event, src, remote, imageBuffer, maxWidth, maxHeight,
                   format, metadata, resizeOptions, sharpCalls>>
    /\ UNCHANGED pageVars

\* lines 250 to 304: one iteration of the loop
Iterate ==
    /\ pc = "loop"
    /\ position < Len(buffer)
    /\ LET s == LoopStep(buffer, boundary, position, parts)
       IN  /\ position' = s.position
           /\ parts' = s.parts
           /\ pc' = IF s.brk THEN "return" ELSE "loop"
    /\ UNCHANGED <<event, src, remote, buffer, boundary, handlerVars>>
    /\ UNCHANGED pageVars

\* line 250: the loop ends when the cursor has reached the end of the buffer
LoopExit ==
    /\ pc = "loop"
    /\ position >= Len(buffer)
    /\ pc' = "return"
    /\ UNCHANGED <<event, src, remote, parserVars, handlerVars>>
    /\ UNCHANGED pageVars

\* line 306 and lines 100 to 117: the parser returns the mapping and the
\* handler reads its fields
AfterParse ==
    /\ pc = "return"
    /\ IF ~Truthy(PartOf(parts, ImageKey)) THEN
          /\ Return(400, "No image file provided")
          /\ UNCHANGED <<imageBuffer, maxWidth, maxHeight, format>>
       ELSE
          /\ imageBuffer' = "parts.image"
          /\ maxWidth' = OptionalInt(PartOf(parts, MaxWidthKey))
          /\ maxHeight' = OptionalInt(PartOf(parts, MaxHeightKey))
          /\ format' = IF Truthy(PartOf(parts, FormatKey))
                       THEN ExplicitFormat(StringOf(PartOf(parts, FormatKey)),
                                           HostFormat(Host(event)))
                       ELSE HostFormat(Host(event))
          /\ pc' = "validate"
          /\ UNCHANGED response
    /\ UNCHANGED <<event, src, remote, parserVars, metadata, resizeOptions,
                   sharpCalls>>
    /\ UNCHANGED pageVars

\* lines 119 to 128
BadContentType ==
    /\ pc = "start"
    /\ event.httpMethod = "POST"
    /\ ~IsJson(event)
    /\ ~IsMultipart(event)
    /\ Return(400, "Content-Type must be multipart/form-data or application/json")
    /\ UNCHANGED <<event, src, remote, parserVars, imageBuffer, maxWidth,
                   maxHeight, format, metadata, resizeOptions, sharpCalls>>
    /\ UNCHANGED pageVars

\* lines 130 to 145
Validate ==
    /\ pc = "validate"
    /\ IF Rejects(maxWidth) THEN Return(400, "maxWidth must be a positive number")
       ELSE IF Rejects(maxHeight)
         THEN Return(400, "maxHeight must be a positive number")
       ELSE pc' = "sharp" /\ UNCHANGED response
    /\ UNCHANGED <<event, src, remote, parserVars, imageBuffer, maxWidth,
                   maxHeight, format, metadata, resizeOptions, sharpCalls>>
    /\ UNCHANGED pageVars

\* lines 148 to 182: the image library reads the natural dimensions, the
\* handler plans the resize and asks for it when the plan is not empty
ReadMetadata ==
    /\ pc = "sharp"
    /\ \E w \in 1..MaxDim, h \in 1..MaxDim :
          /\ metadata' = [width |-> w, height |-> h]
          /\ resizeOptions' = PlanResize(w, h, maxWidth, maxHeight)
          /\ sharpCalls' =
                IF PlanResize(w, h, maxWidth, maxHeight) # NoResize
                THEN sharpCalls \o <<"metadata", "resize">>
                ELSE sharpCalls \o <<"metadata">>
    /\ pc' = "encode"
    /\ UNCHANGED <<event, src, remote, parserVars, imageBuffer, maxWidth,
                   maxHeight, format, response>>
    /\ UNCHANGED pageVars

\* line 151 when the image library cannot decode the image
MetadataFails ==
    /\ pc = "sharp"
    /\ sharpCalls' = sharpCalls \o <<"metadata">>
    /\ ProcessingError
    /\ UNCHANGED <<event, src, remote, parserVars, imageBuffer, maxWidth,
                   maxHeight, format, metadata, resizeOptions>>
    /\ UNCHANGED pageVars

\* lines 185 to 217: the image is encoded to the selected format
Encode ==
    /\ pc = "encode"
    /\ sharpCalls' = sharpCalls \o <<IF format = Avif THEN "avif" ELSE "webp">>
    /\ Return(200, "")
    /\ UNCHANGED <<event, src, remote, parserVars, imageBuffer, maxWidth,
                   maxHeight, format, metadata, resizeOptions>>
    /\ UNCHANGED pageVars

\* lines 193 and 196 when the image library fails to encode
EncodeFails ==
    /\ pc = "encode"
    /\ sharpCalls' = sharpCalls \o <<IF format = Avif THEN "avif" ELSE "webp">>
    /\ ProcessingError
    /\ UNCHANGED <<event, src, remote, parserVars, imageBuffer, maxWidth,
                   maxHeight, format, metadata, resizeOptions>>
    /\ UNCHANGED pageVars

Next ==
    \/ Preflight
    \/ MethodNotAllowed
    \/ ResolveJson
    \/ BeginMultipart
    \/ Iterate
    \/ LoopExit
    \/ AfterParse
    \/ BadContentType
    \/ Validate
    \/ ReadMetadata
    \/ MetadataFails
    \/ Encode
    \/ EncodeFails

---------------------------------------------------------------------------
(* The browser script of the converter page (main.js, lines 1 to 159) *)

\* no file: fileInput.files[0] is undefined, lastFile is null
NoFile == [id |-> 0, name |-> << >>, type |-> "", width |-> 0, height |-> 0]

\* 'a.png', 'b.JPG', '.png', 'c.gif' and 'imagen'
NameAPng == <<97, 46, 112, 110, 103>>
NameBJpg == <<98, 46, 74, 80, 71>>
NameDotPng == <<46, 112, 110, 103>>
NameCGif == <<99, 46, 103, 105, 102>>
Imagen == <<105, 109, 97, 103, 101, 110>>

\* '.png', '.jpg', '.jpeg', '.webp'
ExtPng == <<46, 112, 110, 103>>
ExtJpg == <<46, 106, 112, 103>>
ExtJpeg == <<46, 106, 112, 101, 103>>
ExtWebp == <<46, 119, 101, 98, 112>>

\* the files the user can pick: name, MIME type and natural size
SampleFiles ==
    { [id |-> 1, name |-> NameAPng, type |-> "image/png", width |-> 4, height |-> 2],
      [id |-> 2, name |-> NameBJpg, type |-> "image/jpeg", width |-> 3, height |-> 3],
      [id |-> 3, name |-> NameDotPng, type |-> "image/png", width |-> 1, height |-> 1],
      [id |-> 4, name |-> NameCGif, type |-> "image/gif", width |-> 2, height |-> 2] }

\* the texts the user can leave in the maxWidth and maxHeight inputs: '', '2'
SampleInputs == {<< >>, <<50>>}

\* /^image\/(png|jpe?g)$/.test(file.type)   (line 22)
AcceptedType(type) == type \in {"image/png", "image/jpg", "image/jpeg"}

\* whether str ends with pat, ignoring case
EndsWithIgnoringCase(str, pat) ==
    /\ Len(str) >= Len(pat)
    /\ MatchesAt(ToLowerCase(str), pat, Len(str) - Len(pat))

\* name.replace(/\.(png|jpe?g)$/i, "") || "imagen"   (lines 73, 74)
BaseName(name) ==
    LET cut == IF EndsWithIgnoringCase(name, ExtJpeg) THEN 5
               ELSE IF EndsWithIgnoringCase(name, ExtPng) THEN 4
               ELSE IF EndsWithIgnoringCase(name, ExtJpg) THEN 4
               ELSE 0
        stripped == SubSeq(name, 1, Len(name) - cut)
    IN  IF stripped = << >> THEN Imagen ELSE stripped

\* `${baseName}.webp`   (line 76)
DownloadName(file) == BaseName(file.name) \o ExtWebp

\* Number.isNaN(n) ? null : n   (lines 59, 60)
NullIfNaN(n) == IF n.t = "nan" THEN Null ELSE n

\* Math.round(x * num / den) for positive operands
RoundScaled(x, num, den) == (2 * x * num + den) \div (2 * den)

\* the scale of lines 105 to 112 as a fraction: the least of 1, maxWidth/width
\* (when maxWidth is exceeded) and maxHeight/height (when maxHeight is)
Scale(width, height, mw, mh) ==
    LET byWidth == IF Truthy(mw) /\ width > mw.n
                   THEN [num |-> mw.n, den |-> width]
                   ELSE [num |-> 1, den |-> 1]
    IN  IF Truthy(mh) /\ height > mh.n /\ mh.n * byWidth.den < byWidth.num * height
        THEN [num |-> mh.n, den |-> height]
        ELSE byWidth

\* the canvas size of lines 114 to 121
CanvasSize(width, height, mw, mh) ==
    LET scale == Scale(width, height, mw, mh)
    IN  IF scale.num < scale.den
        THEN [width |-> RoundScaled(width, scale.num, scale.den),
              height |-> RoundScaled(height, scale.num, scale.den)]
        ELSE [width |-> width, height |-> height]

\* no URL (no src attribute, href '#'), the object URL of a file, and the
\* object URL of the blob a conversion of a file produced
NoUrl == [kind |-> "none", file |-> 0]
FileUrl(file) == [kind |-> "file", file |-> file.id]
BlobUrl(file) == [kind |-> "webp", file |-> file.id]

NoSize == [width |-> 0, height |-> 0]

\* the download link while hidden by resetOutput; its download attribute is
\* not reset
HiddenLink(link) == [link EXCEPT !.display = "none", !.href = NoUrl]

\* resetOutput (lines 151 to 159)
ResetOutput(status) ==
    /\ statusEl' = status
    /\ downloadLink' = HiddenLink(downloadLink)
    /\ originalPreview' = NoUrl
    /\ convertedPreview' = NoUrl
    /\ originalInfo' = NoSize
    /\ convertedInfo' = NoSize

\* the page as loaded (lines 1 to 13)
PageLoaded ==
    /\ fileInput = NoFile
    /\ lastFile = NoFile
    /\ statusEl = ""
    /\ convertBtn = FALSE
    /\ downloadLink = [display |-> "none", href |-> NoUrl, download |-> << >>]
    /\ originalPreview = NoUrl
    /\ convertedPreview = NoUrl
    /\ originalInfo = NoSize
    /\ convertedInfo = NoSize
    /\ conversions = {}
    /\ loads = {}

\* the promise callbacks of lines 79 to 85 after a rejection
Rejected ==
    /\ statusEl' = "Ocurrió un error durante la conversión."
    /\ convertBtn' = FALSE

\* the user picks a file, or clears the input: the change listener
\* (lines 15 to 38)
Change(file) ==
    /\ fileInput' = IF file # NoFile /\ ~AcceptedType(file.type) THEN NoFile
                    ELSE file
    /\ lastFile' = IF file # NoFile /\ ~AcceptedType(file.type) THEN NoFile
                   ELSE file
    /\ ResetOutput(IF file # NoFile /\ ~AcceptedType(file.type)
                   THEN "Solo se permiten imágenes PNG o JPG/JPEG."
                   ELSE "")
    /\ loads' = IF file # NoFile /\ AcceptedType(file.type)
                THEN loads \cup {file}
                ELSE loads
    /\ UNCHANGED <<convertBtn, conversions>>

\* img.onload of the change listener (lines 33 to 36)
OriginalLoaded(file) ==
    /\ file \in loads
    /\ loads' = loads \ {file}
    /\ originalPreview' = FileUrl(file)
    /\ originalInfo' = [width |-> file.width, height |-> file.height]
    /\ UNCHANGED <<fileInput, lastFile, statusEl, convertBtn, downloadLink,
                   convertedPreview, convertedInfo, conversions>>

\* the preview image of the change listener fails to load: it has no
\* onerror handler
OriginalFails(file) ==
    /\ file \in loads
    /\ loads' = loads \ {file}
    /\ UNCHANGED <<fileInput, lastFile, statusEl, convertBtn, downloadLink,
                   originalPreview, convertedPreview, originalInfo,
                   convertedInfo, conversions>>

\* the click listener of the convert button (lines 40 to 86); a disabled
\* button dispatches no click event
Click(widthText, heightText) ==
    /\ ~convertBtn
    /\ LET mw == ParseIntString(widthText)
           mh == ParseIntString(heightText)
       IN  IF lastFile = NoFile THEN
              /\ statusEl' = "Primero selecciona una imagen."
              /\ UNCHANGED <<convertBtn, conversions>>
           ELSE
              /\ statusEl' =
                    IF mw.t = "nan" /\ mh.t = "nan"
                    THEN "Opcional: puedes indicar ancho y/o alto máximo, o dejar ambos vacíos."
                    ELSE "Convirtiendo..."
              /\ convertBtn' = TRUE
              /\ conversions' = conversions \cup
                    {[file |-> lastFile, maxWidth |-> NullIfNaN(mw),
                      maxHeight |-> NullIfNaN(mh), stage |-> "load",
                      size |-> NoSize]}
    /\ UNCHANGED <<fileInput, lastFile, downloadLink, originalPreview,
                   convertedPreview, originalInfo, convertedInfo, loads>>

\* img.onload of fileToWebP (lines 101 to 139): the canvas is drawn and
\* toBlob is asked for the WebP
ImageLoaded(c) ==
    /\ c \in conversions
    /\ c.stage = "load"
    /\ conversions' = (conversions \ {c}) \cup
          {[c EXCEPT !.stage = "blob",
                     !.size = CanvasSize(c.file.width, c.file.height,
                                         c.maxWidth, c.maxHeight)]}
    /\ UNCHANGED <<fileInput, lastFile, statusEl, convertBtn, downloadLink,
                   originalPreview, convertedPreview, originalInfo,
                   convertedInfo, loads>>

\* img.onerror of fileToWebP (lines 142 to 145), then lines 79 to 85
ImageError(c) ==
    /\ c \in conversions
    /\ c.stage = "load"
    /\ conversions' = conversions \ {c}
    /\ Rejected
    /\ UNCHANGED <<fileInput, lastFile, downloadLink, originalPreview,
                   convertedPreview, originalInfo, convertedInfo, loads>>

\* toBlob calls back without a blob (lines 130 to 133), then lines 79 to 85
BlobNull(c) ==
    /\ c \in conversions
    /\ c.stage = "blob"
    /\ conversions' = conversions \ {c}
    /\ Rejected
    /\ UNCHANGED <<fileInput, lastFile, downloadLink, originalPreview,
                   convertedPreview, originalInfo, convertedInfo, loads>>

\* toBlob calls back with the blob (line 135) and the promise callbacks of
\* lines 63 to 85 run: lastFile.name of line 74 throws when lastFile is null,
\* after the preview was set, and the catch callback reports an error
BlobReady(c) ==
    /\ c \in conversions
    /\ c.stage = "blob"
    /\ conversions' = conversions \ {c}
    /\ convertedPreview' = BlobUrl(c.file)
    /\ convertedInfo' = c.size
    /\ IF lastFile = NoFile THEN
          /\ statusEl' = "Ocurrió un error durante la conversión."
          /\ UNCHANGED downloadLink
       ELSE
          /\ statusEl' = "Conversión completada."
          /\ downloadLink' = [display |-> "inline-block",
                              href |-> BlobUrl(c.file),
                              download |-> DownloadName(lastFile)]
    /\ convertBtn' = FALSE
    /\ UNCHANGED <<fileInput, lastFile, originalPreview, originalInfo, loads>>

PageNext ==
    \/ \E file \in SampleFiles \cup {NoFile} : Change(file) /\ UNCHANGED vars
    \/ \E file \in loads : OriginalLoaded(file) /\ UNCHANGED vars
    \/ \E file \in loads : OriginalFails(file) /\ UNCHANGED vars
    \/ \E w \in SampleInputs, h \in SampleInputs : Click(w, h) /\ UNCHANGED vars
    \/ \E c \in conversions : ImageLoaded(c) /\ UNCHANGED vars
    \/ \E c \in conversions : ImageError(c) /\ UNCHANGED vars
    \/ \E c \in conversions : BlobNull(c) /\ UNCHANGED vars
    \/ \E c \in conversions : BlobReady(c) /\ UNCHANGED vars

---------------------------------------------------------------------------
(* The requests the model is run on *)

\* the base64 character of a 6-bit value
B64Char(v) ==
    IF v < 26 THEN 65 + v
    ELSE IF v < 52 THEN 71 + v
    ELSE IF v < 62 THEN v - 4
    ELSE IF v = 62 THEN 43
    ELSE 47

\* the base64 text of a buffer, as the gateway of the function produces it:
\* 4 characters for every 3 bytes, the last group padded with '='
Base64Encode(buf) ==
    [j \in 1..(4 * ((Len(buf) + 2) \div 3)) |->
        LET g == 3 * ((j - 1) \div 4)
            r == (j - 1) % 4
            b1 == At(buf, g)
            b2 == IF g + 1 < Len(buf) THEN At(buf, g + 1) ELSE 0
            b3 == IF g + 2 < Len(buf) THEN At(buf, g + 2) ELSE 0
        IN  IF r = 0 THEN B64Char(b1 \div 4)
            ELSE IF r = 1 THEN B64Char((b1 % 4) * 16 + b2 \div 16)
            ELSE IF r = 2 THEN
                IF g + 1 < Len(buf) THEN B64Char((b2 % 16) * 4 + b3 \div 64)
                ELSE 61
            ELSE IF g + 2 < Len(buf) THEN B64Char(b3 % 64) ELSE 61]

\* 'Content-Disposition: form-data'
ContentDisposition ==
    <<67, 111, 110, 116, 101, 110, 116, 45, 68, 105, 115, 112, 111, 115, 105,
      116, 105, 111, 110, 58, 32, 102, 111, 114, 109, 45, 100, 97, 116, 97>>
\* '; name="'  and  '; filename="'
NameParam == <<59, 32>> \o NameAttr
FilenameParam == <<59, 32>> \o FilenameAttr \o <<Quote>>
\* 'Content-Type: image/png'
ContentTypeLine ==
    <<67, 111, 110, 116, 101, 110, 116, 45, 84, 121, 112, 101, 58, 32, 105,
      109, 97, 103, 101, 47, 112, 110, 103>>
\* 'f.png'
FileName == <<102, 46, 112, 110, 103>>

\* A part of a multipart body.  style says how its header block is written:
\*   "field"       name="N"
\*   "file"        name="N"; filename="F", then a Content-Type line
\*   "fileFirst"   filename="F"; name="N"
\*   "noName"      no attribute at all
\*   "fileNoName"  filename="F" only
\*   "noBlankLine" name="N", and the blank line after the headers is missing
Part(name, style, content) ==
    [name |-> name, style |-> style, content |-> content]

HeaderBlock(p) ==
    CASE p.style \in {"field", "noBlankLine"} ->
            ContentDisposition \o NameParam \o p.name \o <<Quote>>
      [] p.style = "file" ->
            ContentDisposition \o NameParam \o p.name \o <<Quote>>
              \o FilenameParam \o FileName \o <<Quote>>
              \o CRLF \o ContentTypeLine
      [] p.style = "fileFirst" ->
            ContentDisposition \o FilenameParam \o FileName \o <<Quote>>
              \o NameParam \o p.name \o <<Quote>>
      [] p.style = "noName" -> ContentDisposition
      [] p.style = "fileNoName" ->
            ContentDisposition \o FilenameParam \o FileName \o <<Quote>>

\* --B CRLF headers CRLF CRLF content CRLF
EncodePart(p, bnd) ==
    BoundaryBuffer(bnd) \o CRLF \o HeaderBlock(p)
      \o (IF p.style = "noBlankLine" THEN CRLF ELSE HeaderTerminator)
      \o p.content \o CRLF

RECURSIVE EncodeParts(_, _)
EncodeParts(ps, bnd) ==
    IF ps = << >> THEN << >>
    ELSE EncodePart(Head(ps), bnd) \o EncodeParts(Tail(ps), bnd)

\* the parts, then the closing --B-- CRLF
EncodeBody(ps, bnd) == EncodeParts(ps, bnd) \o BoundaryEnd(bnd) \o CRLF

HasName(p) == p.style \notin {"noName", "fileNoName"}
HasFilename(p) == p.style \in {"file", "fileFirst", "fileNoName"}
WellFormedPart(p) == p.style \in {"field", "file", "fileFirst"}

\* the boundary of the generated bodies: 'X'
SampleBoundary == <<88>>

\* the parts the generated bodies are built from
WellFormedSamples ==
    { Part(ImageKey, "file", <<255, CR, LF, Dash>>),
      Part(ImageKey, "fileFirst", <<255>>),
      Part(MaxWidthKey, "field", <<50>>),              \* 2
      Part(MaxWidthKey, "field", <<97, 98, 99>>),      \* abc
      Part(MaxWidthKey, "field", <<Dash, 49>>),        \* -1
      Part(MaxHeightKey, "field", <<48>>),             \* 0
      Part(FormatKey, "field", <<87, 101, 98, 80>>),   \* WebP
      Part(FormatKey, "field", <<195, 169>>) }         \* e with acute accent
MalformedSamples ==
    { Part(<< >>, "noName", <<120>>),
      Part(<< >>, "fileNoName", <<120>>),
      Part(ImageKey, "noBlankLine", <<121>>) }
SampleParts == WellFormedSamples \cup MalformedSamples

\* the parts of the bodies that are cut off
TruncatedSamples ==
    { Part(ImageKey, "file", <<255, CR, LF, Dash>>),
      Part(ImageKey, "fileFirst", <<255>>),
      Part(MaxWidthKey, "field", <<50>>),
      Part(FormatKey, "field", <<87, 101, 98, 80>>) }

SeqsUpTo(S, n) == UNION {[1..k -> S] : k \in 0..n}

\* the fragments raw bodies are concatenated from:
\* --X, --, CRLF, CRLF CRLF, name="a", x
Chunks ==
    { BoundaryBuffer(SampleBoundary), <<Dash, Dash>>, CRLF, HeaderTerminator,
      NameAttr \o <<97, Quote>>, <<120>> }

RECURSIVE Concat(_)
Concat(ss) == IF ss = << >> THEN << >> ELSE Head(ss) \o Concat(Tail(ss))

\* the boundaries of the raw bodies: 'X' and '-', whose marker --- overlaps
\* itself and the fragment --
RawBoundaries == {SampleBoundary, <<Dash>>}

\* content types
\* 'multipart/form-data; boundary=' and the boundary
MultipartWith(bnd) == MultipartFormData \o <<59, 32>> \o BoundaryEq \o bnd
\* 'multipart/form-data; boundary='
MultipartNoBoundaryValue == MultipartFormData \o <<59, 32>> \o BoundaryEq
\* 'text/plain'
TextPlain == <<116, 101, 120, 116, 47, 112, 108, 97, 105, 110>>

\* hosts: none, avif.x.io, webp.x.io, AVIF.x.io, WEBP.x.io, x.webp.io,
\* webp.avif.io, http://webp.x.io, https://avif.x.io
SampleHosts ==
    { << >>,
      <<97, 118, 105, 102, 46, 120, 46, 105, 111>>,
      <<119, 101, 98, 112, 46, 120, 46, 105, 111>>,
      <<65, 86, 73, 70, 46, 120, 46, 105, 111>>,
      <<87, 69, 66, 80, 46, 120, 46, 105, 111>>,
      <<120, 46, 119, 101, 98, 112, 46, 105, 111>>,
      <<119, 101, 98, 112, 46, 97, 118, 105, 102, 46, 105, 111>>,
      <<104, 116, 116, 112, 58, 47, 47, 119, 101, 98, 112, 46, 120, 46, 105, 111>>,
      <<104, 116, 116, 112, 115, 58, 47, 47, 97, 118, 105, 102, 46, 120, 46,
        105, 111>> }

\* values of the JSON fields maxWidth and maxHeight:
\* missing, 0, 2, -1, "2", "abc", "0", "-1", "12px"
SampleBounds ==
    { Undefined, Num(0), Num(2), Num(-1), Str(<<50>>), Str(<<97, 98, 99>>),
      Str(<<48>>), Str(<<Dash, 49>>), Str(<<49, 50, 112, 120>>) }

\* values of the JSON field format: missing, "AVIF", "webp", "WebP", "png", 7
SampleFormats ==
    { Undefined, Str(<<65, 86, 73, 70>>), Str(Webp), Str(<<87, 101, 98, 80>>),
      Str(<<112, 110, 103>>), Num(7) }

\* a JSON object body; a text that is not JSON; the JSON text null
JsonObject(url, b64, image, mw, mh, fmt) ==
    [kind |-> "object", imageUrl |-> url, imageBase64 |-> b64, image |-> image,
     maxWidth |-> mw, maxHeight |-> mh, format |-> fmt]
NotJson == [JsonObject(Undefined, Undefined, Undefined, Undefined, Undefined,
                       Undefined) EXCEPT !.kind = "invalid"]
JsonNull == [NotJson EXCEPT !.kind = "null"]

\* 'http://x', 'data'
SampleUrl == Str(<<104, 116, 116, 112, 58, 47, 47, 120>>)
SampleData == Str(<<100, 97, 116, 97>>)

\* the image fields of a JSON body: none, imageUrl, imageBase64, image,
\* imageUrl with imageBase64, a number as imageBase64
SampleSources ==
    { <<Undefined, Undefined, Undefined>>,
      <<SampleUrl, Undefined, Undefined>>,
      <<Undefined, SampleData, Undefined>>,
      <<Undefined, Undefined, SampleData>>,
      <<SampleUrl, SampleData, Undefined>>,
      <<Undefined, Num(7), Undefined>> }

Event(method, contentType, xfh, host, body, b64, json) ==
    [httpMethod |-> method, contentType |-> contentType,
     xForwardedHost |-> xfh, host |-> host, body |-> body,
     isBase64Encoded |-> b64, json |-> json]

\* a multipart POST of the given bytes
MultipartEvent(bytes, bnd, b64) ==
    Event("POST", MultipartWith(bnd), << >>, << >>,
          IF b64 THEN Base64Encode(bytes) ELSE bytes, b64, NotJson)

Source(kind, ps, cut) == [kind |-> kind, parts |-> ps, cut |-> cut]

\* where the terminal boundary of a body of parts ps is complete
TerminalEnd(ps, bnd) == Len(EncodeParts(ps, bnd)) + Len(BoundaryEnd(bnd))

\* the requests: event, what its body was built from, the remote server
Requests ==
    \* complete multipart bodies, in both transport encodings
    { <<MultipartEvent(EncodeBody(ps, SampleBoundary), SampleBoundary, b64),
        Source("built", ps, -1), "ok">> :
        ps \in SeqsUpTo(SampleParts, MaxParts), b64 \in BOOLEAN }
    \cup
    \* multipart bodies cut off before the terminal boundary is complete
    UNION {
      { <<MultipartEvent(SubSeq(EncodeBody(ps, SampleBoundary), 1, cut),
                         SampleBoundary, FALSE),
          Source("built", ps, cut), "ok">> :
          cut \in 0..(TerminalEnd(ps, SampleBoundary) - 1) } :
      ps \in SeqsUpTo(TruncatedSamples, MaxParts) }
    \cup
    \* multipart bodies of arbitrary fragments
    { <<MultipartEvent(Concat(cs), bnd, FALSE), Source("raw", << >>, -1), "ok">> :
        cs \in SeqsUpTo(Chunks, MaxChunks), bnd \in RawBoundaries }
    \cup
    \* JSON bodies: the image source, the bounds, the remote server
    { <<Event("POST", ApplicationJson, << >>, << >>, << >>, FALSE,
              JsonObject(s[1], s[2], s[3], mw, mh, Undefined)),
        Source("json", << >>, -1), r>> :
        s \in SampleSources, mw \in SampleBounds, mh \in SampleBounds,
        r \in {"ok", "notok", "rejected"} }
    \cup
    \* JSON bodies: the hosts and the format
    { <<Event("POST", ApplicationJson, xfh, host, << >>, FALSE,
              JsonObject(Undefined, SampleData, Undefined, Undefined,
                         Undefined, fmt)),
        Source("json", << >>, -1), "ok">> :
        xfh \in SampleHosts, host \in SampleHosts, fmt \in SampleFormats }
    \cup
    \* other methods, other content types, bodies that are not JSON objects
    { <<Event(m, ct, << >>, << >>, << >>, FALSE, j),
        Source("other", << >>, -1), "ok">> :
        m \in {"OPTIONS", "GET", "POST"},
        ct \in {<< >>, TextPlain, MultipartFormData, MultipartNoBoundaryValue,
                ApplicationJson},
        j \in {NotJson, JsonNull} }

Init ==
    /\ \E r \in Requests :
          /\ event = r[1]
          /\ src = r[2]
          /\ remote = r[3]
    /\ pc = "start"
    /\ buffer = << >>
    /\ boundary = << >>
    /\ position = 0
    /\ parts = EmptyParts
    /\ imageBuffer = "none"
    /\ maxWidth = Null
    /\ maxHeight = Null
    /\ format = Webp
    /\ metadata = [width |-> 0, height |-> 0]
    /\ resizeOptions = NoResize
    /\ sharpCalls = << >>
    /\ response = NoResponse
    /\ PageLoaded

Spec == Init /\ [][Next]_vars

\* the page alone: no request is being handled
NoRequest ==
    /\ event = Event("OPTIONS", << >>, << >>, << >>, << >>, FALSE, NotJson)
    /\ src = Source("other", << >>, -1)
    /\ remote = "ok"
    /\ pc = "done"
    /\ buffer = << >>
    /\ boundary = << >>
    /\ position = 0
    /\ parts = EmptyParts
    /\ imageBuffer = "none"
    /\ maxWidth = Null
    /\ maxHeight = Null
    /\ format = Webp
    /\ metadata = [width |-> 0, height |-> 0]
    /\ resizeOptions = NoResize
    /\ sharpCalls = << >>
    /\ response = NoResponse

PageInit == NoRequest /\ PageLoaded

PageSpec == PageInit /\ [][PageNext]_pageVars

---------------------------------------------------------------------------
(* Properties of parseMultipartFormData *)

\* the parser has returned its mapping
Returned == pc = "return"

\* the body is a complete body built from src.parts
CompleteBody == src.kind = "built" /\ src.cut = -1

\* the body is a body built from src.parts and cut off after src.cut bytes
CutBody == src.kind = "built" /\ src.cut # -1

PartsOf(ps) == {ps[i] : i \in 1..Len(ps)}

DistinctNames(ps) ==
    \A i, j \in 1..Len(ps) : ps[i].name = ps[j].name => i = j

\* what a part is expected to map to: the raw bytes of a part with a
\* filename, the text of the content of a part without one
ExpectedValue(p) ==
    IF HasFilename(p) THEN [file |-> TRUE, data |-> p.content]
    ELSE [file |-> FALSE, data |-> Utf8Decode(p.content)]

\* C1: parsing a well-formed body built from N parts with pairwise distinct
\* names returns exactly N entries, one per part name, a part with a
\* filename attribute mapped to its content byte for byte and a part without
\* one mapped to the text of its content.
C1_RoundTrip ==
    ( /\ Returned
      /\ CompleteBody
      /\ \A p \in PartsOf(src.parts) : WellFormedPart(p)
      /\ DistinctNames(src.parts) )
    => /\ DOMAIN parts = {p.name : p \in PartsOf(src.parts)}
       /\ Cardinality(DOMAIN parts) = Len(src.parts)
       /\ \A p \in PartsOf(src.parts) : parts[p.name] = ExpectedValue(p)

\* the number of parts of ps that are complete in the first cut bytes of the
\* body: those followed, within these bytes, by a part marker
CompleteParts(ps, bnd, cut) ==
    Cardinality({i \in 1..Len(ps) :
        Len(EncodeParts(SubSeq(ps, 1, i), bnd)) + Len(BoundaryBuffer(bnd)) <= cut})

\* C2: parsing a body cut off before its terminal boundary returns exactly
\* the parts that were complete before the cut, with the values the parse of
\* the whole body gives them (the mapping the parse of the whole body holds
\* once it has stored that many parts), and nothing for the part the cut
\* interrupts.
C2_TruncatedBody ==
    (Returned /\ CutBody) =>
        parts = LoopFrom(EncodeBody(src.parts, boundary), boundary, 0, EmptyParts,
                         CompleteParts(src.parts, boundary, src.cut)).parts

\* a two-part body cut inside its second part: the first part is returned
C2_Witness ==
    /\ Returned
    /\ CutBody
    /\ Len(src.parts) = 2
    /\ CompleteParts(src.parts, boundary, src.cut) = 1
    /\ Cardinality(DOMAIN parts) = 1

\* C3: a part whose header block has no name attribute is dropped: the
\* mapping returned is the one returned for the body without that part.
C3_NamelessDropped ==
    ( /\ Returned
      /\ CompleteBody
      /\ \A p \in PartsOf(src.parts) : WellFormedPart(p) \/ ~HasName(p) )
    => parts = ParseBuffer(EncodeBody(SelectSeq(src.parts, HasName), boundary),
                           boundary)

\* C8: the parser terminates on every buffer: the cursor stays within the
\* buffer, and the iteration the loop is about to run never moves the cursor
\* back and, unless it leaves the loop, moves it forward; so the loop runs at
\* most as many iterations as the buffer has bytes and then returns.
C8_Terminates ==
    pc = "loop" =>
        /\ position >= 0
        /\ position <= Len(buffer)
        /\ position < Len(buffer) =>
              LET s == LoopStep(buffer, boundary, position, parts)
              IN  /\ s.position >= position
                  /\ s.position <= Len(buffer)
                  /\ ~s.brk => s.position > position

\* the parser has skipped a nameless part and goes on scanning
C8_Witness ==
    /\ pc = "loop"
    /\ position > 0
    /\ position < Len(buffer)
    /\ src.kind = "built"
    /\ Len(src.parts) = 2
    /\ ~HasName(src.parts[1])

\* C9: an entry is stored from one part only: when an iteration stores an
\* entry, the header block and the content block it read lie between the
\* part marker that opens the part and the very next part marker of the
\* buffer, where the cursor is left.
C9_EntryFromOnePart ==
    [][(pc = "loop" /\ parts' # parts) =>
         LET marker == BoundaryBuffer(boundary)
             opening == IndexOf(buffer, marker, position)
         IN  position' = IndexOf(buffer, marker, opening + Len(marker))]_vars

\* C10: the key of a part is the value of its name attribute, whatever the
\* order of the attributes, and a part with a filename attribute is stored
\* as a file.
C10_KeyIsName ==
    ( /\ Returned
      /\ CompleteBody
      /\ \A p \in PartsOf(src.parts) : WellFormedPart(p)
      /\ DistinctNames(src.parts) )
    => \A p \in PartsOf(src.parts) :
          /\ p.name \in DOMAIN parts
          /\ HasFilename(p) => parts[p.name].file

---------------------------------------------------------------------------
(* Properties of exports.handler *)

\* the request took the JSON branch with a JSON object as its body
JsonRequest ==
    event.httpMethod = "POST" /\ IsJson(event) /\ event.json.kind = "object"

\* the request took the multipart branch
MultipartRequest == event.httpMethod = "POST" /\ IsMultipart(event)

\* the image was resolved: the handler got past the resolution of its input
Resolved == imageBuffer # "none"

\* the parameter the request gives under a key, undefined when it gives none
Parameter(jsonField, partKey) ==
    IF JsonRequest THEN jsonField ELSE PartOf(parts, partKey)

\* a bound that is given and does not parse as a positive integer
InvalidBound(x) ==
    /\ x # Undefined
    /\ ParseInt(x) = NaN \/ ParseInt(x).n <= 0

\* the image library was asked neither to resize nor to encode
NotProcessed ==
    \A i \in 1..Len(sharpCalls) : sharpCalls[i] \notin {"resize", "avif", "webp"}

\* C4: a maxWidth (maxHeight) that is given and does not parse as a positive
\* integer fails the request with status 400 and an error naming maxWidth
\* (maxHeight), an invalid one of the two when both are, and the image is
\* neither resized nor encoded.
C4_InvalidBoundRejected ==
    (pc = "done" /\ Resolved) =>
        LET mw == Parameter(event.json.maxWidth, MaxWidthKey)
            mh == Parameter(event.json.maxHeight, MaxHeightKey)
        IN  (InvalidBound(mw) \/ InvalidBound(mh)) =>
                /\ response.statusCode = 400
                /\ \/ /\ InvalidBound(mw)
                      /\ response.error = "maxWidth must be a positive number"
                   \/ /\ InvalidBound(mh)
                      /\ response.error = "maxHeight must be a positive number"
                /\ NotProcessed

\* the client input errors of a POST request: a content type that is neither
\* JSON nor multipart, a multipart content type without a boundary, a
\* multipart body without an image entry, a JSON body with no image field,
\* an imageUrl whose fetch does not succeed
ClientInputError ==
    /\ event.httpMethod = "POST"
    /\ \/ ~IsJson(event) /\ ~IsMultipart(event)
       \/ IsMultipart(event) /\ BoundaryOf(ContentType(event)) = << >>
       \/ /\ IsMultipart(event)
          /\ BoundaryOf(ContentType(event)) # << >>
          /\ ImageKey \notin DOMAIN parts
       \/ JsonRequest /\ JsonSource(event.json) = "none"
       \/ JsonRequest /\ JsonSource(event.json) = "imageUrl" /\ remote # "ok"

\* C5: a client input error is answered with a 4xx status, never with the
\* processing error, and the image library is not invoked for it.
C5_ClientErrorsAre4xx ==
    (pc = "done" /\ ClientInputError) =>
        /\ response.statusCode >= 400
        /\ response.statusCode <= 499
        /\ sharpCalls = << >>

\* two texts equal up to the case of their letters
SameIgnoringCase(a, b) ==
    /\ Len(a) = Len(b)
    /\ \A i \in 1..Len(a) : LowerChar(a[i]) = LowerChar(b[i])

\* the host the format is chosen from: x-forwarded-host, else host,
\* lower-cased
ForwardedHost ==
    LET h == IF event.xForwardedHost # << >> THEN event.xForwardedHost
             ELSE event.host
    IN  [i \in 1..Len(h) |-> LowerChar(h[i])]

\* the text of the format parameter of the request, empty when none is given
\* or it is not a text
FormatParameter ==
    LET f == Parameter(event.json.format, FormatKey)
    IN  IF f.t = "string" THEN f.s
        ELSE IF f.t = "buffer" THEN Utf8Decode(f.b)
        ELSE << >>

\* the format selected for a host default
SelectedFormat(default) ==
    IF SameIgnoringCase(FormatParameter, Avif) THEN Avif
    ELSE IF SameIgnoringCase(FormatParameter, Webp) THEN Webp
    ELSE default

Planned == metadata.width > 0

\* a bound that is not given, or is a positive integer
NoBound(b) == b = Null
PositiveBound(b) == b.t = "number" /\ b.n > 0

\* the image library was asked to resize
ResizeRequested == \E i \in 1..Len(sharpCalls) : sharpCalls[i] = "resize"

\* C7: with neither bound no resize is requested; with only maxWidth a
\* resize to width = maxWidth, height free, exactly when w > maxWidth; with
\* only maxHeight a resize to height = maxHeight exactly when h > maxHeight;
\* with both a resize to (maxWidth, maxHeight) with fit inside exactly when
\* w > maxWidth or h > maxHeight.  So an image that fits is never resized
\* and a target dimension never exceeds its bound.
C7_ResizePlan ==
    ( /\ Planned
      /\ NoBound(maxWidth) \/ PositiveBound(maxWidth)
      /\ NoBound(maxHeight) \/ PositiveBound(maxHeight) )
    => LET w == metadata.width
           h == metadata.height
           r == resizeOptions
           none == r.width = 0 /\ r.height = 0 /\ r.fit = ""
       IN  /\ ResizeRequested <=> ~none
           /\ (NoBound(maxWidth) /\ NoBound(maxHeight)) => none
           /\ (PositiveBound(maxWidth) /\ NoBound(maxHeight)) =>
                 IF w > maxWidth.n
                 THEN r.width = maxWidth.n /\ r.height = 0 /\ r.fit = ""
                 ELSE none
           /\ (NoBound(maxWidth) /\ PositiveBound(maxHeight)) =>
                 IF h > maxHeight.n
                 THEN r.height = maxHeight.n /\ r.width = 0 /\ r.fit = ""
                 ELSE none
           /\ (PositiveBound(maxWidth) /\ PositiveBound(maxHeight)) =>
                 IF w > maxWidth.n \/ h > maxHeight.n
                 THEN /\ r.width = maxWidth.n
                      /\ r.height = maxHeight.n
                      /\ r.fit = "inside"
                 ELSE none
           /\ ( /\ PositiveBound(maxWidth) => w <= maxWidth.n
                /\ PositiveBound(maxHeight) => h <= maxHeight.n ) => none
           /\ PositiveBound(maxWidth) => r.width <= maxWidth.n
           /\ PositiveBound(maxHeight) => r.height <= maxHeight.n

\* both bounds given, only the width exceeds its bound: a resize into the
\* box is requested
C7_Witness ==
    /\ Planned
    /\ PositiveBound(maxWidth)
    /\ PositiveBound(maxHeight)
    /\ metadata.width > maxWidth.n
    /\ metadata.height <= maxHeight.n
    /\ ResizeRequested
    /\ resizeOptions.fit = "inside"

---------------------------------------------------------------------------
(* Properties of the browser script *)

\* the converted preview and the download link are both shown
ResultShown ==
    /\ convertedPreview # NoUrl
    /\ downloadLink.display = "inline-block"

\* the shown image, the download target and the download name all come from
\* the selected file
FromSelectedFile ==
    /\ lastFile # NoFile
    /\ convertedPreview = BlobUrl(lastFile)
    /\ downloadLink.href = BlobUrl(lastFile)
    /\ downloadLink.download = DownloadName(lastFile)

\* whenever the result is shown, it was produced from lastFile
ShownResultIsCurrent == ResultShown => FromSelectedFile

\* no converted image of a file other than lastFile is displayed
NoStalePreview ==
    convertedPreview # NoUrl =>
        lastFile # NoFile /\ convertedPreview = BlobUrl(lastFile)

\* the convert button is disabled exactly while a conversion is in flight,
\* and at most one conversion is in flight
ButtonTracksConversion ==
    /\ convertBtn <=> conversions # {}
    /\ Cardinality(conversions) <= 1

\* C11: under every interleaving of the change event, the convert click and
\* the completion of fileToWebP, a shown preview and download link were both
\* produced from lastFile, no result of an earlier file is displayed after
\* resetOutput or named after the newer file, and the convert button is
\* disabled exactly while a conversion is in flight, at most one at a time.
C11_ResultOfSelectedFile ==
    /\ ShownResultIsCurrent
    /\ NoStalePreview
    /\ ButtonTracksConversion

\* a conversion is in flight for a file that is no longer the selected one
ChangedInFlight == \E c \in conversions : c.file # lastFile

\* a result is shown for the selected file
CurrentResultShown == ResultShown /\ FromSelectedFile

====
